---- MODULE Spec2Model ----
(***************************************************************************)
(* Phonebook backend: verification-code ledger, identity resolution and    *)
(* contact-graph ingestion over a store without transactions.              *)
(*                                                                         *)
(* Every store call of a handler is one step of the worker that serves the *)
(* request, so that requests served by different workers interleave        *)
(* between store calls.  A user key is the position of the user document   *)
(* in users, an attempt key the position of the attempt document in        *)
(* attempts and an edge key the position of the edge document in edges     *)
(* (the store never reuses a key).  The clock counts minutes.              *)
(***************************************************************************)
EXTENDS Integers, Sequences, FiniteSets, TLC

(* ------------------------------ bounds -------------------------------- *)
MaxNow == 6
MaxAttempts == 2
MaxUsers == 3
MaxEdges == 2
MaxBatch == 2

Procs == {"w1", "w2"}
CodeSamples == {7, 123456}
RawNumbers == {"0701", "+46701", "0702", "0703", "0999", "abc"}
LedgerRaws == {"0701", "+46701", "0702", "0999", "abc"}

(* --------------------------- program constants ------------------------ *)
VerificationExpiryTime == 5
JWTLifetime == 43200
JWTSecret == "MyAwesomeSecretForJWT"
CodeLimit == 1000000

(* ----------------------- phone-number library ------------------------- *)
ParseError == [ok |-> FALSE, cc |-> 0, nat |-> 0]

ToUpper(s) == IF s = "se" THEN "SE" ELSE s

NationalDigits(raw) ==
  CASE raw = "0701" -> 701
    [] raw = "+46701" -> 701
    [] raw = "0702" -> 702
    [] raw = "0703" -> 703
    [] raw = "0999" -> 999
    [] OTHER -> 0

Parse(raw, region) ==
  IF NationalDigits(raw) = 0 \/ region # "SE"
    THEN ParseError
    ELSE [ok |-> TRUE, cc |-> 46, nat |-> NationalDigits(raw)]

IsValidNumberForRegion(n, region) ==
  n.ok /\ region = "SE" /\ n.cc = 46 /\ n.nat \in {701, 702, 703}

Format(n) ==
  CASE n.nat = 701 -> "+46701"
    [] n.nat = 702 -> "+46702"
    [] n.nat = 703 -> "+46703"
    [] n.nat = 999 -> "+46999"
    [] OTHER -> ""

(* The six digits of Sprintf("%06d", n), leading zeros kept. *)
Pow10(k) == IF k = 0 THEN 1 ELSE IF k = 1 THEN 10 ELSE IF k = 2 THEN 100
            ELSE IF k = 3 THEN 1000 ELSE IF k = 4 THEN 10000 ELSE 100000
Sprintf06d(n) == [i \in 1..6 |-> (n \div Pow10(6 - i)) % 10]

GeneratedCodes == {Sprintf06d(n % CodeLimit) : n \in CodeSamples}
(* What a client may type: any code the generator can produce. *)
SuppliedCodes == GeneratedCodes

(* ------------------------------ records ------------------------------- *)
NoAttempt == [number |-> "", code |-> <<>>, createdAt |-> 0]
NoToken == [user_key |-> 0, nbf |-> 0, exp |-> 0, secret |-> ""]
(* An Authorization header: its length in bytes and what jwt.Parse makes   *)
(* of the bytes from the eighth on.                                        *)
BearerPrefixLen == 7
NoHeader == [present |-> FALSE, len |-> 0, token |-> NoToken]
Bearer(t) == [present |-> TRUE, len |-> BearerPrefixLen + 1, token |-> t]
(* "Bearer", without the blank and the token. *)
ShortHeader == [present |-> TRUE, len |-> BearerPrefixLen - 1, token |-> NoToken]
(* A header of another scheme, long enough to be sliced. *)
BasicHeader == [present |-> TRUE, len |-> BearerPrefixLen + 1, token |-> NoToken]

Contact(raw, name) == [country_code |-> "se", number |-> raw, name |-> name]
ContactSamples ==
  {Contact("0701", "Alice"), Contact("+46701", "Bob"), Contact("0703", "Alice"),
   Contact("0999", "Alice"), Contact("abc", "Alice")}

Idle ==
  [pc |-> "idle", op |-> "none", userKey |-> 0, attemptKey |-> 0, code |-> <<>>,
   attempt |-> NoAttempt, verifiedAt |-> 0, number |-> "", bodyKey |-> 0,
   contacts |-> <<>>, log |-> <<>>, contactUserKey |-> 0, existing |-> 0]

NoResp ==
  [status |-> 0, token |-> NoToken, id |-> 0, contacts |-> <<>>, user_key |-> 0,
   number |-> ""]

Status(s) == [NoResp EXCEPT !.status = s]

VARIABLES
  users,       \* users collection: user key -> number
  attempts,    \* verification_attempts collection: attempt key -> document
  edges,       \* contacts edge collection: edge key -> [from, to, name]
  now,         \* time.Now(), in minutes
  issued,      \* bearer credentials handed out by /verify
  req,         \* per worker: the request it serves (or served last) and its locals
  resp,        \* per worker: the response to req, once sent
  accepted,    \* history: attempt keys for which VerifyCode returned true
  resolved,    \* history: number -> key returned by the first GetOrCreateUser
  submitted,   \* history: <<owner, number>> -> name last sent in an add-contacts body
  applied      \* history: <<owner, number>> -> name of the last item the loop finished

vars == <<users, attempts, edges, now, issued, req, resp, accepted, resolved,
          submitted, applied>>

store == <<users, attempts, edges>>
history == <<accepted, resolved, submitted, applied>>

CanonicalNumbers == {"+46701", "+46702", "+46703"}
UserKeys == 1..Len(users)
LiveAttempts == {k \in 1..Len(attempts) : attempts[k] # NoAttempt}

Init ==
  /\ users = <<>>
  /\ attempts = <<>>
  /\ edges = <<>>
  /\ now = 0
  /\ issued = {}
  /\ req = [p \in Procs |-> Idle]
  /\ resp = [p \in Procs |-> NoResp]
  /\ accepted = {}
  /\ resolved = [n \in CanonicalNumbers |-> 0]
  /\ submitted = [o \in 1..MaxUsers, n \in CanonicalNumbers |-> ""]
  /\ applied = [o \in 1..MaxUsers, n \in CanonicalNumbers |-> ""]

(* A worker takes a new request when it serves none; conc = FALSE is the   *)
(* execution in which requests do not interleave.                          *)
CanStart(p, conc) ==
  /\ req[p].pc = "idle"
  /\ conc \/ \A q \in Procs : req[q].pc = "idle"

(* The handler returns: its loop locals go, the request stays on record. *)
Finish(p, r, response) ==
  /\ req' = [req EXCEPT ![p] = [r EXCEPT !.pc = "idle", !.number = "",
                                          !.contactUserKey = 0, !.existing = 0]]
  /\ resp' = [resp EXCEPT ![p] = response]

Continue(p, r) ==
  /\ req' = [req EXCEPT ![p] = r]
  /\ resp' = [resp EXCEPT ![p] = NoResp]

(* Time passes between store calls, by a whole validity window or by a   *)
(* minute more than one.                                                 *)
Tick(elapsed) ==
  /\ now + elapsed <= MaxNow
  /\ now' = now + elapsed
  /\ UNCHANGED <<store, issued, req, resp, history>>

(* ------------------------- verification ledger ------------------------ *)
CreateVerificationAttempt(atts, number, code, t) ==
  Append(atts, [number |-> number, code |-> code, createdAt |-> t])

RequestVerificationHandler(p, conc, raw, n, ok) ==
  LET number == Parse(raw, "SE")
      r == [Idle EXCEPT !.op = "request-verification"]
  IN /\ CanStart(p, conc)
     /\ Len(attempts) < MaxAttempts
     /\ IF ~number.ok \/ ~IsValidNumberForRegion(number, "SE")
          THEN Finish(p, r, Status(400)) /\ UNCHANGED attempts
          ELSE IF ~ok
            THEN Finish(p, r, Status(500)) /\ UNCHANGED attempts
            ELSE /\ attempts' = CreateVerificationAttempt(
                                  attempts, Format(number), Sprintf06d(n % CodeLimit), now)
                 /\ Finish(p, [r EXCEPT !.attemptKey = Len(attempts')],
                           [Status(200) EXCEPT !.id = Len(attempts')])
     /\ UNCHANGED <<users, edges, now, issued, history>>

(* Faulty variant: the delete takes every attempt of the same number. *)
DeleteDocumentOfNumber(atts, key) ==
  IF key \in 1..Len(atts)
    THEN [k \in 1..Len(atts) |->
            IF atts[k].number = atts[key].number THEN NoAttempt ELSE atts[k]]
    ELSE atts

DeleteDocument(atts, key) ==
  IF key \in 1..Len(atts) THEN [atts EXCEPT ![key] = NoAttempt] ELSE atts

CancelVerificationHandler(p, conc, key, ok) ==
  LET r == [Idle EXCEPT !.op = "cancel-verification", !.attemptKey = key]
  IN /\ CanStart(p, conc)
     /\ IF ~ok
          THEN Finish(p, r, Status(500)) /\ UNCHANGED attempts
          ELSE IF key \notin LiveAttempts
            THEN Finish(p, r, Status(404)) /\ UNCHANGED attempts
            ELSE attempts' = DeleteDocument(attempts, key) /\ Finish(p, r, Status(200))
     /\ UNCHANGED <<users, edges, now, issued, history>>

(* Faulty variant: the window closes a minute early (>= for After). *)
VerifyCodeInclusive(atts, attempt, key, code, t, ok) ==
  IF t >= attempt.createdAt + VerificationExpiryTime
    THEN [valid |-> FALSE, attempts |-> IF ok THEN DeleteDocument(atts, key) ELSE atts]
    ELSE IF attempt.code = code
      THEN [valid |-> TRUE, attempts |-> IF ok THEN DeleteDocument(atts, key) ELSE atts]
      ELSE [valid |-> FALSE, attempts |-> atts]

(* Faulty variant: a wrong code consumes the attempt too. *)
VerifyCodeConsuming(atts, attempt, key, code, t, ok) ==
  IF t > attempt.createdAt + VerificationExpiryTime
    THEN [valid |-> FALSE, attempts |-> IF ok THEN DeleteDocument(atts, key) ELSE atts]
    ELSE [valid |-> attempt.code = code,
          attempts |-> IF ok THEN DeleteDocument(atts, key) ELSE atts]

(* now.After(createdAt + 5 min) deletes and rejects; a matching code deletes *)
(* and accepts; the error of either delete is dropped.  The result is the   *)
(* returned bool and the collection the call leaves behind.                 *)
VerifyCode(atts, attempt, key, code, t, ok) ==
  IF t > attempt.createdAt + VerificationExpiryTime
    THEN [valid |-> FALSE, attempts |-> IF ok THEN DeleteDocument(atts, key) ELSE atts]
    ELSE IF attempt.code = code
      THEN [valid |-> TRUE, attempts |-> IF ok THEN DeleteDocument(atts, key) ELSE atts]
      ELSE [valid |-> FALSE, attempts |-> atts]

(* /verify up to ReadDocument: any read error, a missing attempt included,  *)
(* is answered 500.                                                         *)
VerifyRequestHandler(p, conc, key, code, ok) ==
  LET r == [Idle EXCEPT !.op = "verify", !.attemptKey = key, !.code = code]
  IN /\ CanStart(p, conc)
     /\ IF ~ok \/ key \notin LiveAttempts
          THEN Finish(p, r, Status(500))
          ELSE /\ Continue(p, [r EXCEPT !.pc = "verify_code", !.attempt = attempts[key]])
     /\ UNCHANGED <<store, now, issued, history>>

VerifyCodeStep(p, ok) ==
  LET r == [req[p] EXCEPT !.verifiedAt = now]
      v == VerifyCode(attempts, r.attempt, r.attemptKey, r.code, now, ok)
  IN /\ r.pc = "verify_code"
     /\ attempts' = v.attempts
     /\ IF v.valid
          THEN /\ Continue(p, [r EXCEPT !.pc = "resolve_query", !.number = r.attempt.number])
               /\ accepted' = accepted \cup {r.attemptKey}
          ELSE /\ Finish(p, r, Status(400))
               /\ UNCHANGED accepted
     /\ UNCHANGED <<users, edges, now, issued, resolved, submitted, applied>>

(* ------------------------- identity resolution ------------------------ *)
GenerateJWT(userKey, t) ==
  [user_key |-> userKey, nbf |-> t, exp |-> t + JWTLifetime, secret |-> JWTSecret]

(* Faulty variant: the filter names a field no user document has. *)
UsersWithNumberNone(us, number) == {k \in 1..Len(us) : FALSE}

(* Faulty variant: the query has no filter. *)
UsersWithNumberAny(us, number) == {k \in 1..Len(us) : TRUE}

(* Faulty variant: the query looks at the first user document only. *)
UsersWithNumberFirstOnly(us, number) == {k \in 1..Len(us) : k = 1 /\ us[k] = number}

(* FOR u IN users FILTER u.number == @number: the keys the filter matches. *)
UsersWithNumber(us, number) == {k \in 1..Len(us) : us[k] = number}

CreateUser(us, number) == Append(us, number)

FirstResolved(res, number, key) ==
  IF res[number] = 0 THEN [res EXCEPT ![number] = key] ELSE res

(* What the caller of GetOrCreateUser does with the key it returns. *)
Resolved(p, r, key) ==
  /\ resolved' = FirstResolved(resolved, r.number, key)
  /\ IF r.op = "verify"
       THEN /\ issued' = issued \cup {GenerateJWT(key, now)}
            /\ Finish(p, [r EXCEPT !.userKey = key],
                      [Status(200) EXCEPT !.token = GenerateJWT(key, now)])
       ELSE /\ UNCHANGED issued
            /\ Continue(p, [r EXCEPT !.contactUserKey = key, !.pc = "edge_query"])

ResolveFailed(p, r) ==
  /\ Finish(p, r, Status(500))
  /\ UNCHANGED <<issued, resolved>>

(* GetOrCreateUser up to the read of the cursor (LIMIT 1: any one match). *)
GetOrCreateUserQuery(p, ok) ==
  LET r == req[p]
      found == UsersWithNumber(users, r.number)
  IN /\ r.pc = "resolve_query"
     /\ IF ~ok
          THEN ResolveFailed(p, r)
          ELSE IF found = {}
            THEN Continue(p, [r EXCEPT !.pc = "resolve_create"]) /\ UNCHANGED <<issued, resolved>>
            ELSE \E key \in found : Resolved(p, r, key)
     /\ UNCHANGED <<store, now, accepted, submitted, applied>>

(* The CreateUser branch of GetOrCreateUser. *)
GetOrCreateUserCreate(p, ok) ==
  LET r == req[p]
  IN /\ r.pc = "resolve_create"
     /\ Len(users) < MaxUsers
     /\ IF ~ok
          THEN ResolveFailed(p, r) /\ UNCHANGED users
          ELSE /\ users' = CreateUser(users, r.number)
               /\ Resolved(p, r, Len(users'))
     /\ UNCHANGED <<attempts, edges, now, accepted, submitted, applied>>

(* ------------------------------ credentials --------------------------- *)
Forged == [user_key |-> 1, nbf |-> 0, exp |-> JWTLifetime, secret |-> "guess"]
Headers == {NoHeader, Bearer(Forged)} \cup {Bearer(t) : t \in issued}

(* The user key put in Locals, or a 401; authHeader[7:] of a header       *)
(* shorter than seven bytes panics before anything is answered.           *)
AuthMiddleware(h, t) ==
  IF ~h.present
    THEN [ok |-> FALSE, panic |-> FALSE, userKey |-> 0]
    ELSE IF h.len < BearerPrefixLen
      THEN [ok |-> FALSE, panic |-> TRUE, userKey |-> 0]
      ELSE IF h.token.secret # JWTSecret \/ ~(t < h.token.exp) \/ t < h.token.nbf
        THEN [ok |-> FALSE, panic |-> FALSE, userKey |-> 0]
        ELSE [ok |-> TRUE, panic |-> FALSE, userKey |-> h.token.user_key]

(* A panic no middleware recovers ends the process: the request of worker *)
(* p gets no answer and no worker takes another step.                     *)
Panic(p, op) ==
  /\ req' = [q \in Procs |->
               IF q = p THEN [Idle EXCEPT !.op = op, !.pc = "down"]
                        ELSE [req[q] EXCEPT !.pc = "down"]]
  /\ resp' = [resp EXCEPT ![p] = NoResp]

(* --------------------------- contact graph ---------------------------- *)
CanonicalOf(contact) ==
  LET number == Parse(contact.number, ToUpper(contact.country_code))
  IN IF number.ok /\ IsValidNumberForRegion(number, ToUpper(contact.country_code))
       THEN Format(number) ELSE ""

Max(S) == CHOOSE x \in S : \A y \in S : y <= x

(* The name a request body carries last for a number ("" when it has none). *)
LastNameFor(batch, n) ==
  LET at == {i \in 1..Len(batch) : CanonicalOf(batch[i]) = n}
  IN IF at = {} THEN "" ELSE batch[Max(at)].name

Submit(sub, owner, batch) ==
  LET last == [n \in CanonicalNumbers |-> LastNameFor(batch, n)]
  IN [o \in 1..MaxUsers, n \in CanonicalNumbers |->
        IF o = owner /\ last[n] # "" THEN last[n] ELSE sub[o, n]]

AddContactsHandler(p, conc, h, batch) ==
  LET auth == AuthMiddleware(h, now)
      r == [Idle EXCEPT !.op = "add-contacts", !.userKey = auth.userKey,
                        !.contacts = batch, !.pc = "add_loop"]
  IN /\ CanStart(p, conc)
     /\ IF auth.panic
          THEN Panic(p, "add-contacts") /\ UNCHANGED submitted
          ELSE IF ~auth.ok
            THEN Finish(p, [Idle EXCEPT !.op = "add-contacts"], Status(401))
                 /\ UNCHANGED submitted
            ELSE Continue(p, r) /\ submitted' = Submit(submitted, auth.userKey, batch)
     /\ UNCHANGED <<store, now, issued, accepted, resolved, applied>>

(* Faulty variant: an item not valid for its region ends the call like    *)
(* one that does not parse.                                               *)
AddContactsLoopStrict(p) ==
  LET r == req[p]
      contact == Head(r.contacts)
      countryCode == ToUpper(contact.country_code)
      number == Parse(contact.number, countryCode)
  IN /\ r.pc = "add_loop"
     /\ IF r.contacts = <<>>
          THEN Finish(p, r, Status(200))
          ELSE IF ~number.ok \/ ~IsValidNumberForRegion(number, countryCode)
            THEN Finish(p, r, Status(400))
            ELSE Continue(p, [r EXCEPT !.pc = "resolve_query", !.number = Format(number)])
     /\ UNCHANGED <<store, now, issued, history>>

(* Faulty variant: a call that ends on an unparseable item takes back the *)
(* edge written last.                                                     *)
AddContactsLoopCompensating(p) ==
  LET r == req[p]
      contact == Head(r.contacts)
      countryCode == ToUpper(contact.country_code)
      number == Parse(contact.number, countryCode)
  IN /\ r.pc = "add_loop"
     /\ IF r.contacts = <<>>
          THEN Finish(p, r, Status(200)) /\ UNCHANGED edges
          ELSE IF ~number.ok
            THEN /\ Finish(p, r, Status(400))
                 /\ edges' = IF r.log # <<>> /\ edges # <<>>
                                THEN SubSeq(edges, 1, Len(edges) - 1) ELSE edges
            ELSE IF ~IsValidNumberForRegion(number, countryCode)
              THEN /\ Continue(p, [r EXCEPT !.contacts = Tail(r.contacts),
                                            !.log = Append(r.log, "skipped")])
                   /\ UNCHANGED edges
              ELSE /\ Continue(p, [r EXCEPT !.pc = "resolve_query", !.number = Format(number)])
                   /\ UNCHANGED edges
     /\ UNCHANGED <<users, attempts, now, issued, history>>

(* The head of the loop over request.Contacts (r.contacts is what is left  *)
(* of it, the current item first; r.log what became of the items before   *)
(* it): parse, region check, format.                                       *)
AddContactsLoop(p) ==
  LET r == req[p]
      contact == Head(r.contacts)
      countryCode == ToUpper(contact.country_code)
      number == Parse(contact.number, countryCode)
  IN /\ r.pc = "add_loop"
     /\ IF r.contacts = <<>>
          THEN Finish(p, r, Status(200))
          ELSE IF ~number.ok
            THEN Finish(p, r, Status(400))
            ELSE IF ~IsValidNumberForRegion(number, countryCode)
              THEN Continue(p, [r EXCEPT !.contacts = Tail(r.contacts),
                                         !.log = Append(r.log, "skipped")])
              ELSE Continue(p, [r EXCEPT !.pc = "resolve_query", !.number = Format(number)])
     /\ UNCHANGED <<store, now, issued, history>>

(* Faulty variant: the filter forgets the owner. *)
EdgesBetweenAnyOwner(es, from, to) == {e \in 1..Len(es) : es[e].to = to}

(* Faulty variant: the bind variables are swapped. *)
EdgesBetweenSwapped(es, from, to) == {e \in 1..Len(es) : es[e].from = to /\ es[e].to = from}

(* FOR c IN contacts FILTER c._from == @from AND c._to == @to. *)
EdgesBetween(es, from, to) == {e \in 1..Len(es) : es[e].from = from /\ es[e].to = to}

NextContact(r) ==
  [r EXCEPT !.pc = "add_loop", !.contacts = Tail(r.contacts),
            !.log = Append(r.log, "applied"), !.number = "", !.contactUserKey = 0,
            !.existing = 0]

Apply(app, r) == [app EXCEPT ![r.userKey, r.number] = Head(r.contacts).name]

AddContactsEdgeQuery(p, ok) ==
  LET r == req[p]
      found == EdgesBetween(edges, r.userKey, r.contactUserKey)
  IN /\ r.pc = "edge_query"
     /\ IF ~ok
          THEN Finish(p, r, Status(500)) /\ UNCHANGED applied
          ELSE IF found = {}
            THEN Continue(p, [r EXCEPT !.pc = "edge_create"]) /\ UNCHANGED applied
            ELSE \E e \in found :
                   IF edges[e].name # Head(r.contacts).name
                     THEN Continue(p, [r EXCEPT !.pc = "edge_update", !.existing = e])
                          /\ UNCHANGED applied
                     ELSE Continue(p, NextContact(r)) /\ applied' = Apply(applied, r)
     /\ UNCHANGED <<store, now, issued, accepted, resolved, submitted>>

UpdateDocument(es, key, name) == [es EXCEPT ![key].name = name]

AddContactsEdgeUpdate(p, ok) ==
  LET r == req[p]
  IN /\ r.pc = "edge_update"
     /\ IF ~ok
          THEN Finish(p, r, Status(500)) /\ UNCHANGED <<edges, applied>>
          ELSE /\ edges' = UpdateDocument(edges, r.existing, Head(r.contacts).name)
               /\ Continue(p, NextContact(r))
               /\ applied' = Apply(applied, r)
     /\ UNCHANGED <<users, attempts, now, issued, accepted, resolved, submitted>>

(* Faulty variant: the new edge takes the place of the newest one. *)
CreateEdgeOverwriting(es, from, to, name) ==
  IF es = <<>>
    THEN <<[from |-> from, to |-> to, name |-> name]>>
    ELSE [es EXCEPT ![Len(es)] = [from |-> from, to |-> to, name |-> name]]

CreateEdge(es, from, to, name) == Append(es, [from |-> from, to |-> to, name |-> name])

AddContactsEdgeCreate(p, ok) ==
  LET r == req[p]
  IN /\ r.pc = "edge_create"
     /\ Len(edges) < MaxEdges
     /\ IF ~ok
          THEN Finish(p, r, Status(500)) /\ UNCHANGED <<edges, applied>>
          ELSE /\ edges' = CreateEdge(edges, r.userKey, r.contactUserKey, Head(r.contacts).name)
               /\ Continue(p, NextContact(r))
               /\ applied' = Apply(applied, r)
     /\ UNCHANGED <<users, attempts, now, issued, accepted, resolved, submitted>>

(* Faulty variant: the traversal follows edges in both directions (ANY). *)
RECURSIVE OutboundAny(_, _)
OutboundAny(es, user) ==
  IF es = <<>> THEN <<>>
  ELSE LET rest == OutboundAny(Tail(es), user)
       IN IF Head(es).from = user
            THEN <<[name |-> Head(es).name, user_key |-> Head(es).to]>> \o rest
            ELSE IF Head(es).to = user
              THEN <<[name |-> Head(es).name, user_key |-> Head(es).from]>> \o rest
              ELSE rest

(* FOR v, e IN 1..1 OUTBOUND @user contacts RETURN {name, user_key}. *)
RECURSIVE Outbound(_, _)
Outbound(es, user) ==
  IF es = <<>> THEN <<>>
  ELSE LET rest == Outbound(Tail(es), user)
       IN IF Head(es).from = user
            THEN <<[name |-> Head(es).name, user_key |-> Head(es).to]>> \o rest
            ELSE rest

(* The vertex whose outbound edges /api/contacts returns. *)
ContactsOf(userKey, bodyKey) == bodyKey

GetContactsHandler(p, conc, h, bodyKey, ok) ==
  LET auth == AuthMiddleware(h, now)
      r == [Idle EXCEPT !.op = "contacts", !.userKey = auth.userKey, !.bodyKey = bodyKey]
  IN /\ CanStart(p, conc)
     /\ IF auth.panic
          THEN Panic(p, "contacts")
          ELSE IF ~auth.ok
            THEN Finish(p, [Idle EXCEPT !.op = "contacts"], Status(401))
            ELSE IF ~ok
              THEN Finish(p, r, Status(500))
              ELSE Finish(p, r, [Status(200) EXCEPT
                     !.contacts = Outbound(edges, ContactsOf(auth.userKey, bodyKey))])
     /\ UNCHANGED <<store, now, issued, history>>

MeHandler(p, conc, h, ok) ==
  LET auth == AuthMiddleware(h, now)
      r == [Idle EXCEPT !.op = "me", !.userKey = auth.userKey]
  IN /\ CanStart(p, conc)
     /\ IF auth.panic
          THEN Panic(p, "me")
          ELSE IF ~auth.ok
            THEN Finish(p, [Idle EXCEPT !.op = "me"], Status(401))
            ELSE IF ~ok \/ auth.userKey \notin UserKeys
              THEN Finish(p, r, Status(404))
              ELSE Finish(p, r, [Status(200) EXCEPT !.user_key = auth.userKey,
                                                    !.number = users[auth.userKey]])
     /\ UNCHANGED <<store, now, issued, history>>

(* ---------------------------- specifications -------------------------- *)
RECURSIVE SeqsUpTo(_, _)
SeqsUpTo(S, n) ==
  IF n = 0 THEN {<<>>}
  ELSE LET shorter == SeqsUpTo(S, n - 1)
       IN shorter \cup {Append(s, x) : s \in {t \in shorter : Len(t) = n - 1}, x \in S}

Batches == SeqsUpTo(ContactSamples, MaxBatch)

(* The state after the holders of +46701 and +46702 have each requested a *)
(* code at minute 0 and verified it: users 1 and 2 and their credentials. *)
InitGraph ==
  /\ users = <<"+46701", "+46702">>
  /\ attempts = <<NoAttempt, NoAttempt>>
  /\ edges = <<>>
  /\ now = 0
  /\ issued = {GenerateJWT(1, 0), GenerateJWT(2, 0)}
  /\ req = [p \in Procs |-> Idle]
  /\ resp = [p \in Procs |-> NoResp]
  /\ accepted = {1, 2}
  /\ resolved = [n \in CanonicalNumbers |-> IF n = "+46701" THEN 1 ELSE IF n = "+46702" THEN 2 ELSE 0]
  /\ submitted = [o \in 1..MaxUsers, n \in CanonicalNumbers |-> ""]
  /\ applied = [o \in 1..MaxUsers, n \in CanonicalNumbers |-> ""]

(* The middleware answers before the body is read: one body stands for    *)
(* all when it rejects the header.                                         *)
Bodies(h, bodies) ==
  IF AuthMiddleware(h, now).ok THEN bodies ELSE {CHOOSE b \in bodies : TRUE}

(* conc: requests interleave between store calls; Outcomes: what a store   *)
(* call may report (TRUE: done, FALSE: an error, nothing done).            *)
Clock ==
  \E elapsed \in {VerificationExpiryTime, VerificationExpiryTime + 1} : Tick(elapsed)

Ledger(workers, conc, Outcomes) ==
  \E p \in workers, ok \in Outcomes :
    \/ \E raw \in LedgerRaws, n \in CodeSamples : RequestVerificationHandler(p, conc, raw, n, ok)
    \/ \E key \in 1..MaxAttempts : CancelVerificationHandler(p, conc, key, ok)
    \/ \E key \in 1..MaxAttempts, code \in SuppliedCodes :
         VerifyRequestHandler(p, conc, key, code, ok)
    \/ VerifyCodeStep(p, ok)

Resolver(workers, Outcomes) ==
  \E p \in workers, ok \in Outcomes :
    \/ GetOrCreateUserQuery(p, ok)
    \/ GetOrCreateUserCreate(p, ok)

Ingest(workers, conc, Outcomes, batches) ==
  \E p \in workers :
    \/ \E h \in Headers : \E batch \in Bodies(h, batches) :
         AddContactsHandler(p, conc, h, batch)
    \/ AddContactsLoop(p)
    \/ \E ok \in Outcomes : AddContactsEdgeQuery(p, ok)
    \/ \E ok \in Outcomes : AddContactsEdgeUpdate(p, ok)
    \/ \E ok \in Outcomes : AddContactsEdgeCreate(p, ok)

Reader(workers, conc, Outcomes) ==
  \E p \in workers :
    \/ \E h \in Headers : \E bodyKey \in Bodies(h, 1..MaxUsers), ok \in Outcomes :
         GetContactsHandler(p, conc, h, bodyKey, ok)
    \/ \E h \in Headers, ok \in Outcomes : MeHandler(p, conc, h, ok)

(* The verification ledger under interleaving requests. *)
Next == Clock \/ Ledger(Procs, TRUE, {TRUE}) \/ Resolver(Procs, {TRUE})
Spec == Init /\ [][Next]_vars

(* The contact graph of two verified users, one request at a time. *)
NextGraph ==
  \/ Resolver({"w1"}, {TRUE})
  \/ Ingest({"w1"}, FALSE, {TRUE}, Batches)
  \/ Reader({"w1"}, FALSE, {TRUE})
SpecGraph == InitGraph /\ [][NextGraph]_vars

(* Contact ingestion alone, with store calls that may fail. *)
NextGraphFail ==
  \/ Resolver({"w1"}, {TRUE, FALSE})
  \/ Ingest({"w1"}, FALSE, {TRUE, FALSE}, Batches)
SpecGraphFail == InitGraph /\ [][NextGraphFail]_vars

(* The /api group behind its middleware, with every kind of header: none, *)
(* too short to slice, another scheme, wrongly signed, issued (and, long  *)
(* after minute 0, expired).                                              *)
AllHeaders == Headers \cup {ShortHeader, BasicHeader}
OneItemBatches == SeqsUpTo(ContactSamples, 1)

InitAuth ==
  /\ users = <<"+46701", "+46702">>
  /\ attempts = <<NoAttempt, NoAttempt>>
  /\ edges = <<>>
  /\ now \in {0, JWTLifetime}
  /\ issued = {GenerateJWT(1, 0), GenerateJWT(2, 0)}
  /\ req = [p \in Procs |-> Idle]
  /\ resp = [p \in Procs |-> NoResp]
  /\ accepted = {1, 2}
  /\ resolved = [n \in CanonicalNumbers |-> IF n = "+46701" THEN 1 ELSE IF n = "+46702" THEN 2 ELSE 0]
  /\ submitted = [o \in 1..MaxUsers, n \in CanonicalNumbers |-> ""]
  /\ applied = [o \in 1..MaxUsers, n \in CanonicalNumbers |-> ""]

Gate(workers, conc, hs, batches) ==
  \E p \in workers, h \in hs :
    \/ \E batch \in Bodies(h, batches) : AddContactsHandler(p, conc, h, batch)
    \/ \E bodyKey \in Bodies(h, 1..MaxUsers) : GetContactsHandler(p, conc, h, bodyKey, TRUE)
    \/ MeHandler(p, conc, h, TRUE)

NextAuth ==
  \/ Gate({"w1"}, FALSE, AllHeaders, OneItemBatches)
  \/ Ingest({"w1"}, FALSE, {TRUE}, OneItemBatches)
  \/ Resolver({"w1"}, {TRUE})
SpecAuth == InitAuth /\ [][NextAuth]_vars

(* The verification ledger and /api/me, one request at a time, over a     *)
(* store whose calls may fail.                                            *)
NextLedgerFail ==
  \/ Clock
  \/ Ledger({"w1"}, FALSE, {TRUE, FALSE})
  \/ Resolver({"w1"}, {TRUE, FALSE})
  \/ \E h \in Headers, ok \in {TRUE, FALSE} : MeHandler("w1", FALSE, h, ok)
SpecLedgerFail == Init /\ [][NextLedgerFail]_vars

(* The whole service, one request at a time over a reliable store, from   *)
(* the state in which the holder of +46701 has verified: contacts are     *)
(* added, their holders ask for codes and verify, lists are read.         *)
AccountRaws == {"0702", "0703"}

InitAccount ==
  /\ users = <<"+46701">>
  /\ attempts = <<NoAttempt>>
  /\ edges = <<>>
  /\ now = 0
  /\ issued = {GenerateJWT(1, 0)}
  /\ req = [p \in Procs |-> Idle]
  /\ resp = [p \in Procs |-> NoResp]
  /\ accepted = {1}
  /\ resolved = [n \in CanonicalNumbers |-> IF n = "+46701" THEN 1 ELSE 0]
  /\ submitted = [o \in 1..MaxUsers, n \in CanonicalNumbers |-> ""]
  /\ applied = [o \in 1..MaxUsers, n \in CanonicalNumbers |-> ""]

NextAccount ==
  \/ Clock
  \/ \E raw \in AccountRaws, n \in CodeSamples :
       RequestVerificationHandler("w1", FALSE, raw, n, TRUE)
  \/ \E key \in 1..MaxAttempts : CancelVerificationHandler("w1", FALSE, key, TRUE)
  \/ \E key \in 1..MaxAttempts, code \in SuppliedCodes :
       VerifyRequestHandler("w1", FALSE, key, code, TRUE)
  \/ VerifyCodeStep("w1", TRUE)
  \/ Resolver({"w1"}, {TRUE})
  \/ Ingest({"w1"}, FALSE, {TRUE}, OneItemBatches)
  \/ Reader({"w1"}, FALSE, {TRUE})
SpecAccount == InitAccount /\ [][NextAccount]_vars

(* Contact ingestion by the two verified users with both workers serving  *)
(* (requests interleave between store calls) or with w1 serving alone     *)
(* (one request at a time).                                               *)
RaceSamples == {c \in ContactSamples : c.number \in {"0701", "+46701", "0703"}}
RaceBatches == SeqsUpTo(RaceSamples, 1)
Stopped == [Idle EXCEPT !.pc = "down"]
Alone == \E p \in Procs : req[p].pc = "down"

InitRace ==
  /\ users = <<"+46701", "+46702">>
  /\ attempts = <<NoAttempt, NoAttempt>>
  /\ edges = <<>>
  /\ now = 0
  /\ issued = {GenerateJWT(1, 0), GenerateJWT(2, 0)}
  /\ req \in {[p \in Procs |-> Idle],
              [p \in Procs |-> IF p = "w1" THEN Idle ELSE Stopped]}
  /\ resp = [p \in Procs |-> NoResp]
  /\ accepted = {1, 2}
  /\ resolved = [n \in CanonicalNumbers |-> IF n = "+46701" THEN 1 ELSE IF n = "+46702" THEN 2 ELSE 0]
  /\ submitted = [o \in 1..MaxUsers, n \in CanonicalNumbers |-> ""]
  /\ applied = [o \in 1..MaxUsers, n \in CanonicalNumbers |-> ""]

NextRace ==
  \/ Resolver(Procs, {TRUE})
  \/ Ingest(Procs, TRUE, {TRUE}, RaceBatches)
SpecRace == InitRace /\ [][NextRace]_vars

(* ----------------------------- properties ---------------------------- *)
(* The step in which worker p takes a request of kind op (and, for a      *)
(* one-call handler, answers it).                                          *)
Takes(p, op) ==
  /\ req[p].pc = "idle"
  /\ req'[p].op = op
  /\ <<req'[p], resp'[p]>> # <<req[p], resp[p]>>

(* The step in which worker p runs VerifyCode. *)
RunsVerifyCode(p) == req[p].pc = "verify_code" /\ req'[p].pc # "verify_code"

Expired(attempt, t) == t > attempt.createdAt + VerificationExpiryTime

(* C1: once a verify of an attempt has been accepted, the attempt is gone  *)
(* from the store and every verify request that arrives later for its key, *)
(* whatever the code, is not accepted, gets no credential and is answered  *)
(* NotFound (404).                                                         *)
C1_SingleUseNotFound ==
  [][\A p \in Procs :
       (Takes(p, "verify") /\ req'[p].attemptKey \in accepted)
         => /\ req'[p].attemptKey \notin LiveAttempts
            /\ req'[p].pc = "idle"
            /\ resp'[p].token = NoToken
            /\ resp'[p].status = 404]_vars

(* C2: VerifyCode run at a time t later than createdAt + 5 min rejects     *)
(* whatever the code and leaves the attempt deleted; run at or before      *)
(* createdAt + 5 min with the stored code it accepts.                      *)
C2_ExpiryBoundary ==
  [][\A p \in Procs :
       RunsVerifyCode(p) =>
         LET r == req'[p]
         IN /\ r.verifiedAt = now
            /\ Expired(r.attempt, r.verifiedAt)
                 => /\ r.pc = "idle"
                    /\ resp'[p].status = 400
                    /\ resp'[p].token = NoToken
                    /\ r.attemptKey \notin accepted' \ accepted
                    /\ r.attemptKey \notin LiveAttempts'
            /\ (~Expired(r.attempt, r.verifiedAt) /\ r.code = r.attempt.code)
                 => /\ r.pc = "resolve_query"
                    /\ r.attemptKey \in accepted']_vars

(* A right code sent a minute after the window closed was rejected and the *)
(* attempt is gone, while another worker's right code, sent inside its     *)
(* attempt's window, was accepted.                                         *)
C2_Witness ==
  \E p, q \in Procs :
    /\ req[p].op = "verify" /\ req[p].pc = "idle" /\ resp[p].status = 400
    /\ req[p].code = req[p].attempt.code
    /\ req[p].verifiedAt = req[p].attempt.createdAt + VerificationExpiryTime + 1
    /\ req[p].attemptKey \notin LiveAttempts
    /\ req[q].op = "verify" /\ req[q].pc = "idle" /\ resp[q].status = 200
    /\ req[q].code = req[q].attempt.code
    /\ ~Expired(req[q].attempt, req[q].verifiedAt)

(* C3: VerifyCode run before expiry with a code other than the stored one  *)
(* rejects and leaves the whole attempts collection as it was, so the      *)
(* attempt stays verifiable with the right code.                           *)
C3_MismatchDoesNotConsume ==
  [][\A p \in Procs :
       (/\ RunsVerifyCode(p)
        /\ ~Expired(req[p].attempt, now)
        /\ req[p].code # req[p].attempt.code)
         => /\ attempts' = attempts
            /\ accepted' = accepted
            /\ req'[p].pc = "idle"
            /\ resp'[p].status = 400
            /\ resp'[p].token = NoToken]_vars

(* A wrong code was rejected and, later and still in time, the right code  *)
(* for the same attempt was accepted.                                      *)
C3_Witness ==
  \E p, q \in Procs :
    /\ req[p].op = "verify" /\ req[p].pc = "idle" /\ resp[p].status = 400
    /\ req[p].code # req[p].attempt.code
    /\ ~Expired(req[p].attempt, req[p].verifiedAt)
    /\ req[q].op = "verify" /\ req[q].pc = "idle" /\ resp[q].status = 200
    /\ req[q].attemptKey = req[p].attemptKey
    /\ req[q].code = req[q].attempt.code
    /\ req[q].verifiedAt >= req[p].verifiedAt
    /\ req[q].verifiedAt > req[q].attempt.createdAt

(* C5: the users collection never holds two records with one number. *)
C5_OneUserPerNumber ==
  \A j, k \in UserKeys : users[j] = users[k] => j = k

(* The step in which GetOrCreateUser returns a key to worker p. *)
ResolveReturns(p) ==
  /\ req[p].pc \in {"resolve_query", "resolve_create"}
  /\ req'[p].pc \notin {"resolve_query", "resolve_create"}
  /\ resp'[p].status # 500

ReturnedKey(p) ==
  IF req'[p].op = "verify" THEN req'[p].userKey ELSE req'[p].contactUserKey

(* C4: when requests do not interleave, every GetOrCreateUser(N) returns   *)
(* the key the first call for N returned, the key of a user whose number   *)
(* is N, and no call after the first creates a user record.                *)
C4_IdempotentResolution ==
  [][\A p \in Procs :
       ResolveReturns(p) =>
         LET n == req[p].number
         IN /\ ReturnedKey(p) \in 1..Len(users')
            /\ users'[ReturnedKey(p)] = n
            /\ ReturnedKey(p) = resolved'[n]
            /\ resolved[n] # 0 => users' = users]_vars

(* +46703, first seen as a contact and given key 3 then, resolves to key 3 *)
(* again in a later item.                                                  *)
C4_Witness ==
  \E p \in Procs :
    /\ req[p].pc = "edge_query" /\ req[p].number = "+46703"
    /\ req[p].contactUserKey = 3 /\ resolved["+46703"] = 3
    /\ \E o \in 1..MaxUsers : applied[o, "+46703"] # ""

(* The edges an owner has to the users holding number n. *)
EdgesTo(o, n) ==
  {e \in 1..Len(edges) : edges[e].from = o /\ edges[e].to \in UsersWithNumber(users, n)}

(* Every owner has, for every number, no edge when names[owner, number] is *)
(* empty and else exactly one edge, which carries that name.               *)
EdgesCarry(names) ==
  \A o \in 1..MaxUsers, n \in CanonicalNumbers :
    IF names[o, n] = ""
      THEN EdgesTo(o, n) = {}
      ELSE /\ Cardinality(EdgesTo(o, n)) = 1
           /\ \A e \in EdgesTo(o, n) : edges[e].name = names[o, n]

Quiet == \A p \in Procs : req[p].pc = "idle"

(* C6 as stated: between add-contacts calls that do not interleave there   *)
(* is at most one edge per (owner, contact) and its name is the name that  *)
(* owner submitted last for that contact.                                  *)
C6_LatestSubmitted ==
  Quiet =>
    \A o \in 1..MaxUsers, n \in CanonicalNumbers :
      /\ Cardinality(EdgesTo(o, n)) <= 1
      /\ \A e \in EdgesTo(o, n) : edges[e].name = submitted[o, n]

(* C6 as amended: at most one edge per (owner, contact), and its name is   *)
(* the name of the last item for that contact that the loop applied (an    *)
(* item behind the one that aborts its batch is never applied).            *)
C6_LatestApplied ==
  /\ \A j, k \in 1..MaxUsers : Cardinality(EdgesBetween(edges, j, k)) <= 1
  /\ EdgesCarry(applied)

(* An owner's contact was renamed to Bob, and the Alice the owner sent for *)
(* it afterwards, behind an unparseable item, was not applied.             *)
C6_Witness ==
  /\ Quiet
  /\ \E o \in 1..MaxUsers :
       /\ applied[o, "+46701"] = "Bob" /\ submitted[o, "+46701"] = "Alice"
       /\ \E e \in EdgesTo(o, "+46701") : edges[e].name = "Bob"

(* The step in which worker p handles the head of the loop for an item. *)
LoopStep(p) ==
  req[p].pc = "add_loop" /\ req[p].contacts # <<>> /\ req'[p] # req[p]

(* C7: an item that parses but is not valid for its region is skipped --   *)
(* nothing is created or updated -- and the loop goes on with the item     *)
(* after it; an item that does not parse ends the call with 400 and what   *)
(* is left of the batch is never processed; a call answered 200 has gone   *)
(* through every item.                                                     *)
C7_SkipOrAbort ==
  [][\A p \in Procs :
       /\ LoopStep(p) =>
            LET c == Head(req[p].contacts)
                number == Parse(c.number, ToUpper(c.country_code))
            IN /\ UNCHANGED <<users, edges, applied>>
               /\ (number.ok /\ ~IsValidNumberForRegion(number, ToUpper(c.country_code)))
                    => /\ req'[p].pc = "add_loop"
                       /\ req'[p].contacts = Tail(req[p].contacts)
               /\ ~number.ok
                    => /\ req'[p].pc = "idle"
                       /\ resp'[p].status = 400
                       /\ req'[p].contacts = req[p].contacts
       /\ (req'[p].op = "add-contacts" /\ resp'[p].status = 200)
            => req'[p].contacts = <<>>
       /\ (req[p].op = "add-contacts" /\ req[p].pc = "idle")
            => (req'[p] = req[p] \/ req'[p].contacts # req[p].contacts
                \/ req[p].contacts = <<>> \/ req'[p].log = <<>>)]_vars

(* A call whose first item was skipped applied its second item and was     *)
(* answered 200.                                                           *)
C7_Witness ==
  \E p \in Procs :
    /\ req[p].op = "add-contacts" /\ req[p].pc = "idle" /\ resp[p].status = 200
    /\ req[p].log = <<"skipped", "applied">>

(* The step in which an add-contacts call of worker p fails. *)
FailsAdd(p) ==
  /\ req[p].op = "add-contacts" /\ req[p].pc # "idle"
  /\ req'[p].pc = "idle" /\ resp'[p].status \in {400, 500}

(* C8: the step in which an add-contacts call fails on an item undoes      *)
(* nothing: users and edges are as the items before it left them, each     *)
(* edge carrying the name applied last, and what is left of the batch      *)
(* stays unprocessed.                                                      *)
C8_NoRollback ==
  [][\A p \in Procs :
       FailsAdd(p) =>
         /\ UNCHANGED <<users, edges, applied>>
         /\ EdgesCarry(applied)'
         /\ req'[p].contacts = req[p].contacts /\ req'[p].contacts # <<>>
         /\ req'[p].log = req[p].log]_vars

(* A call failed on its second item; the edge of its first item is there. *)
C8_Witness ==
  \E p \in Procs :
    /\ req[p].op = "add-contacts" /\ req[p].pc = "idle"
    /\ resp[p].status \in {400, 500}
    /\ req[p].log = <<"applied">> /\ Len(req[p].contacts) = 1
    /\ \E e \in 1..Len(edges) : edges[e].from = req[p].userKey

(* The step in which worker p answers /api/contacts with a list. *)
ListsContacts(p) == Takes(p, "contacts") /\ resp'[p].status = 200

(* One entry per number that names[owner, number] is set for. *)
Listing(names, listed, o) ==
  UNION {{[name |-> listed[o, n], user_key |-> k] : k \in UsersWithNumber(users, n)} :
           n \in {m \in CanonicalNumbers : names[o, m] # ""}}

IsListing(contacts, entries) ==
  /\ Len(contacts) = Cardinality(entries)
  /\ {contacts[i] : i \in 1..Len(contacts)} = entries

(* C9 as stated: the list for an owner has exactly one entry per contact   *)
(* the owner has added, with the contact's key and the name the owner      *)
(* submitted last for it.                                                  *)
C9_ListsLatestSubmitted ==
  [][\A p \in Procs :
       ListsContacts(p) =>
         IsListing(resp'[p].contacts, Listing(applied, submitted, req'[p].bodyKey))]_vars

(* C9 as amended: ... and the name of the last item for it that the loop   *)
(* applied; nothing is listed for contacts of other owners or two hops     *)
(* away.                                                                   *)
C9_OneHopRead ==
  [][\A p \in Procs :
       ListsContacts(p) =>
         IsListing(resp'[p].contacts, Listing(applied, applied, req'[p].bodyKey))]_vars

(* User 2 lists one contact, user 1, while user 1 has a contact of its own *)
(* that is not listed for user 2.                                          *)
C9_Witness ==
  \E p \in Procs :
    /\ req[p].op = "contacts" /\ req[p].pc = "idle" /\ resp[p].status = 200
    /\ req[p].bodyKey = 2
    /\ Len(resp[p].contacts) = 1 /\ resp[p].contacts[1].user_key = 1
    /\ \E e \in 1..Len(edges) : edges[e].from = 1 /\ edges[e].to = 3

(* C10: every edge an add-contacts request writes starts at the user key   *)
(* of its credential, and the list a contacts request returns is the       *)
(* outbound edge list of the user key of its credential.                   *)
C10_AuthenticatedIdentity ==
  [][\A p \in Procs :
       /\ (req[p].op = "add-contacts" /\ req[p].pc # "idle" /\ edges' # edges)
            => \A e \in 1..Len(edges') :
                 (e > Len(edges) \/ edges'[e] # edges[e]) => edges'[e].from = req[p].userKey
       /\ ListsContacts(p) => resp'[p].contacts = Outbound(edges, req'[p].userKey)]_vars

(* The headers the middleware does not let through at time t. *)
BadHeaders(t) == {h \in AllHeaders : ~AuthMiddleware(h, t).ok}

(* C11: a request under /api/ whose header is missing, too short, of      *)
(* another scheme, wrongly signed or expired is answered 401, changes     *)
(* nothing in the store and leaves every worker running.                  *)
C11_BadCredential401 ==
  [][\A p \in Procs, h \in BadHeaders(now) :
       (\/ \E batch \in OneItemBatches : AddContactsHandler(p, FALSE, h, batch)
        \/ \E bodyKey \in 1..MaxUsers : GetContactsHandler(p, FALSE, h, bodyKey, TRUE)
        \/ MeHandler(p, FALSE, h, TRUE))
         => /\ resp'[p].status = 401
            /\ UNCHANGED <<store, issued>>
            /\ \A q \in Procs : req'[q].pc # "down"]_vars

(* C12: a cancel of a live attempt deletes that attempt and nothing else  *)
(* and is answered 200; a cancel of a key with no attempt (never created, *)
(* cancelled or consumed before) is answered 404 and changes nothing;     *)
(* and once a cancel of a key has succeeded no VerifyCode accepts that    *)
(* key.                                                                   *)
C12_CancelIsFinal ==
  [][\A p \in Procs :
       /\ Takes(p, "cancel-verification") =>
            LET key == req'[p].attemptKey
            IN IF key \in LiveAttempts
                 THEN /\ resp'[p].status = 200
                      /\ attempts' = [attempts EXCEPT ![key] = NoAttempt]
                      /\ UNCHANGED <<users, edges>>
                 ELSE /\ resp'[p].status = 404
                      /\ UNCHANGED store
       /\ \A q \in Procs :
            (/\ RunsVerifyCode(p)
             /\ req[q].op = "cancel-verification" /\ req[q].pc = "idle"
             /\ resp[q].status = 200 /\ req[q].attemptKey = req[p].attemptKey)
              => /\ req'[p].pc = "idle"
                 /\ resp'[p].token = NoToken
                 /\ accepted' = accepted]_vars

(* C13: a verify or a cancel that names no attempt, and a /api/me for a   *)
(* user the store does not hold, are answered 404 when the store works;   *)
(* the same requests are answered 500 when the store call fails.          *)
C13_NotFoundOrStoreError ==
  [][\A p \in Procs :
       /\ \A key \in 1..MaxAttempts :
            /\ \A code \in SuppliedCodes :
                 /\ (VerifyRequestHandler(p, FALSE, key, code, TRUE) /\ key \notin LiveAttempts)
                      => resp'[p].status = 404
                 /\ VerifyRequestHandler(p, FALSE, key, code, FALSE)
                      => resp'[p].status = 500
            /\ (CancelVerificationHandler(p, FALSE, key, TRUE) /\ key \notin LiveAttempts)
                 => resp'[p].status = 404
            /\ CancelVerificationHandler(p, FALSE, key, FALSE)
                 => resp'[p].status = 500
       /\ \A h \in Headers :
            AuthMiddleware(h, now).ok =>
              /\ (MeHandler(p, FALSE, h, TRUE) /\ h.token.user_key \notin UserKeys)
                   => resp'[p].status = 404
              /\ MeHandler(p, FALSE, h, FALSE) => resp'[p].status = 500]_vars

(* C19: whenever VerifyCode accepts, or rejects because the attempt is    *)
(* expired, the attempt is absent from the store afterwards, also when    *)
(* the delete call fails.                                                 *)
C19_ConsumedEvenIfDeleteFails ==
  [][\A p \in Procs :
       (/\ RunsVerifyCode(p)
        /\ req'[p].pc = "resolve_query" \/ Expired(req[p].attempt, now))
         => req[p].attemptKey \notin LiveAttempts']_vars

C18_AtMostOneAcceptance ==
  [][\A p \in Procs :
       (RunsVerifyCode(p) /\ req'[p].pc = "resolve_query")
         => req[p].attemptKey \notin accepted]_vars

(* C15: the credential an accepted verify is answered with carries the    *)
(* key of a user whose number is the number of the consumed attempt; a    *)
(* /api/me request with an issued credential is answered with the key in  *)
(* the credential and the number of that user; and the number of a        *)
(* credential's user never changes.                                       *)
C15_CredentialNamesOwnNumber ==
  [][\A p \in Procs :
       /\ (ResolveReturns(p) /\ req[p].op = "verify")
            => LET key == resp'[p].token.user_key
               IN /\ resp'[p].status = 200
                  /\ resp'[p].token \in issued'
                  /\ req[p].attemptKey \in accepted
                  /\ key \in 1..Len(users')
                  /\ users'[key] = req[p].attempt.number
       /\ \A h \in Headers :
            (AuthMiddleware(h, now).ok /\ MeHandler(p, FALSE, h, TRUE))
              => /\ resp'[p].status = 200
                 /\ resp'[p].user_key = h.token.user_key
                 /\ resp'[p].number = users[h.token.user_key]
       /\ \A t \in issued :
            t.user_key \in UserKeys /\ users'[t.user_key] = users[t.user_key]]_vars

(* /api/me was answered for a user who verified after user 1 did: key 2  *)
(* or 3, with the number the store holds for it.                          *)
C15_Witness ==
  \E p \in Procs :
    /\ req[p].op = "me" /\ req[p].pc = "idle" /\ resp[p].status = 200
    /\ resp[p].user_key > 1
    /\ resp[p].number = users[resp[p].user_key]
    /\ \E t \in issued : t.user_key = resp[p].user_key

(* C16: when requests do not interleave, a verify for a number that       *)
(* GetOrCreateUser has returned a key for before (as a contact of some    *)
(* owner) is answered with a credential for that key and creates no user, *)
(* and every edge to a user of that number ends at the credential's user. *)
C16_LazyIdentityReused ==
  [][\A p \in Procs :
       (ResolveReturns(p) /\ req[p].op = "verify" /\ resolved[req[p].number] # 0)
         => /\ users' = users
            /\ resp'[p].status = 200
            /\ resp'[p].token.user_key = resolved[req[p].number]
            /\ \A e \in 1..Len(edges) :
                 users[edges[e].to] = req[p].number
                   => edges'[e].to = resp'[p].token.user_key]_vars

(* The holder of +46703, user 2 since user 1 added the number as a        *)
(* contact, has verified and holds a credential for key 2; user 1's edge  *)
(* ends at key 2 and there is no third user.                              *)
C16_Witness ==
  \E p \in Procs :
    /\ req[p].op = "verify" /\ req[p].pc = "idle" /\ resp[p].status = 200
    /\ req[p].attempt.number = "+46703"
    /\ resp[p].token.user_key = 2
    /\ users = <<"+46701", "+46703">>
    /\ applied[1, "+46703"] # ""
    /\ \E e \in 1..Len(edges) : edges[e].from = 1 /\ edges[e].to = 2

(* C20: no step removes a user or changes a user's number; no step        *)
(* removes an edge or changes where an edge starts or ends; an edge is    *)
(* written or renamed only by the edge write of an add-contacts request   *)
(* and starts at that request's user; no step of an add-contacts request  *)
(* changes an attempt; /api/contacts and /api/me change nothing.          *)
C20_GraphFrame ==
  [][/\ Len(users') >= Len(users)
     /\ \A k \in UserKeys : users'[k] = users[k]
     /\ Len(edges') >= Len(edges)
     /\ \A e \in 1..Len(edges) :
          edges'[e].from = edges[e].from /\ edges'[e].to = edges[e].to
     /\ \A e \in 1..Len(edges') :
          (e > Len(edges) \/ edges'[e] # edges[e])
            => \E p \in Procs :
                 /\ req[p].op = "add-contacts"
                 /\ req[p].pc \in {"edge_update", "edge_create"}
                 /\ req'[p] # req[p]
                 /\ edges'[e].from = req[p].userKey
     /\ \A p \in Procs :
          /\ Takes(p, "add-contacts") => UNCHANGED store
          /\ (req[p].op = "add-contacts" /\ req[p].pc # "idle" /\ req'[p] # req[p])
               => attempts' = attempts
          /\ (Takes(p, "contacts") \/ Takes(p, "me")) => UNCHANGED <<store, issued>>]_vars

(* Two owners each have an edge of their own and a contact list has been  *)
(* read.                                                                  *)
C20_Witness ==
  /\ \E d, e \in 1..Len(edges) : edges[d].from # edges[e].from
  /\ \E p \in Procs :
       req[p].op = "contacts" /\ req[p].pc = "idle" /\ resp[p].status = 200

(* The lookup a worker's pending edge create rests on is out of date. *)
StaleLookup(p) ==
  /\ req[p].pc = "edge_create"
  /\ EdgesBetween(edges, req[p].userKey, req[p].contactUserKey) # {}

TwoEdges(from, to) == Cardinality(EdgesBetween(edges, from, to)) >= 2

(* C17: with one request served at a time no create rests on a lookup     *)
(* that is out of date and no (from, to) pair has two edges; two edges    *)
(* for one pair come about only where requests interleave (the state      *)
(* that shows they do is C17_Witness).                                    *)
C17_TwoEdgesOnlyByRace ==
  Alone =>
    /\ \A p \in Procs : ~StaleLookup(p)
    /\ \A from, to \in 1..MaxUsers : ~TwoEdges(from, to)

(* Two add-contacts calls of user 2 naming +46701 interleaved: each       *)
(* looked up the edge before the other created it, and user 2 has two     *)
(* edges to user 1.                                                       *)
C17_Witness ==
  /\ ~Alone
  /\ TwoEdges(2, 1)
  /\ \A p \in Procs :
       /\ req[p].op = "add-contacts" /\ req[p].userKey = 2
       /\ req[p].log = <<"applied">>

====
